---- MODULE Spec2Model ----
(***************************************************************************)
(* Model of package trace (src/trace.go): the Value wrapper, the Step      *)
(* record, the Trace aggregate with its open -> completed lifecycle, and   *)
(* the identifier derivation generateID.                                   *)
(*                                                                         *)
(* Go strings are modelled as sequences of one-character strings, so that  *)
(* concatenation and byte-wise ordering are computed, not assumed.  Go     *)
(* maps are reference types: they live in two heaps (valMaps for           *)
(* map[string]Value, strMaps for map[string]string) and struct fields hold *)
(* references into them, so that aliasing between the caller's maps and    *)
(* the maps reachable from the Trace is visible.                           *)
(***************************************************************************)
EXTENDS Integers, Sequences, FiniteSets, TLC

VARIABLES
    t,            \* the *Trace under construction (struct Trace, trace.go:89-99)
    valMaps,      \* heap of map[string]Value objects, indexed by reference
    strMaps,      \* heap of map[string]string objects, indexed by reference
    slices,       \* heap of the backing arrays of []int values, indexed by reference
    callerInputs, \* reference of the map the caller passed to NewTrace
    held,         \* the caller's declared Step variables and their values
    last,         \* the most recent call of the caller and what it returned
    idName,       \* generateID harness: the name argument
    idInputs,     \* generateID harness: two inputs mappings
    idOrder,      \* generateID harness: the order `range` visits each mapping
    idOut,        \* generateID harness: the identifiers returned so far
    goroutines    \* concurrent SetResult calls: position, locals and pending stores

vars == <<t, valMaps, strMaps, slices, callerInputs, held, last,
          idName, idInputs, idOrder, idOut, goroutines>>

traceVars == <<t, valMaps, strMaps, slices, callerInputs, held, last>>
idVars    == <<idName, idInputs, idOrder, idOut>>

(***************************************************************************)
(* Bounds of the model.                                                    *)
(***************************************************************************)
MaxSteps == 2    \* steps appended to the trace

Nil    == "nil"    \* the nil error
NilRef == 0        \* the nil map
NilPtr == <<>>     \* the nil pointer
Ptr(v) == <<v>>    \* &v

(***************************************************************************)
(* Strings.                                                                *)
(***************************************************************************)
CharCode(c) ==
    CASE c = "0" -> 48 [] c = "1" -> 49 [] c = "2" -> 50 [] c = "3" -> 51
      [] c = "4" -> 52 [] c = "5" -> 53 [] c = "6" -> 54 [] c = "7" -> 55
      [] c = "8" -> 56 [] c = "9" -> 57
      [] c = "a" -> 97 [] c = "b" -> 98 [] c = "c" -> 99 [] c = "d" -> 100
      [] c = "k" -> 107 [] c = "t" -> 116 [] c = "v" -> 118 [] c = "w" -> 119

\* x < y in Go's string order (byte-wise lexicographic)
RECURSIVE StrLess(_, _)
StrLess(x, y) ==
    IF y = <<>> THEN FALSE
    ELSE IF x = <<>> THEN TRUE
    ELSE IF CharCode(Head(x)) # CharCode(Head(y))
         THEN CharCode(Head(x)) < CharCode(Head(y))
         ELSE StrLess(Tail(x), Tail(y))

\* insert k into the ascending sequence s
RECURSIVE InsertSorted(_, _)
InsertSorted(k, s) ==
    IF s = <<>> THEN <<k>>
    ELSE IF StrLess(k, Head(s)) THEN <<k>> \o s
    ELSE <<Head(s)>> \o InsertSorted(k, Tail(s))

\* a mutation of SortStrings: the keys are left in iteration order
SortStringsUnsorted(keys) == keys

\* sort.Strings(keys)
RECURSIVE SortStrings(_)
SortStrings(keys) ==
    IF keys = <<>> THEN <<>>
    ELSE InsertSorted(Head(keys), SortStrings(Tail(keys)))

\* all orders in which `for k := range m` may visit the key set S
Orders(S) ==
    { o \in [1..Cardinality(S) -> S] : \A i, j \in 1..Cardinality(S) : i # j => o[i] # o[j] }

(***************************************************************************)
(* Value (trace.go:21-39).  A datum is an interface{} value: its dynamic   *)
(* type T and its payload: n for an int, s for a string and, for a []int,  *)
(* in n the reference of its backing array (a slice value is a pointer to  *)
(* the array, which copying the Value does not copy).                      *)
(***************************************************************************)
IntD(n)   == [T |-> "int", n |-> n, s |-> <<>>]
StrD(s)   == [T |-> "string", n |-> 0, s |-> s]
SliceD(r) == [T |-> "[]int", n |-> r, s |-> <<>>]

DigitChar(n) == <<"0", "1", "2", "3", "4", "5", "6", "7", "8", "9">>[n + 1]

\* decimal text of a natural number
RECURSIVE Digits(_)
Digits(n) == IF n < 10 THEN <<DigitChar(n)>> ELSE Digits(n \div 10) \o <<DigitChar(n % 10)>>

\* the elements of a []int as fmt writes them, separated by `sep`
RECURSIVE Elements(_, _)
Elements(a, sep) ==
    IF a = <<>> THEN <<>>
    ELSE Digits(Head(a)) \o (IF Len(a) > 1 THEN <<sep>> ELSE <<>>) \o Elements(Tail(a), sep)

\* fmt.Sprintf("%v", d), the backing arrays being sl
SprintfVIn(sl, d) ==
    IF d.T = "int" THEN Digits(d.n)
    ELSE IF d.T = "[]int" THEN <<"[">> \o Elements(sl[d.n], " ") \o <<"]">>
    ELSE d.s

\* fmt.Sprintf("%v", d)
SprintfV(d) == SprintfVIn(slices, d)

\* fmt.Sprintf("%T", d)
SprintfT(d) == d.T

NewValue(d) == [Type |-> SprintfT(d), Value |-> d]

ValueString(v) == SprintfV(v.Value)

(***************************************************************************)
(* generateID (trace.go:204-224).  `inputs` is the content of the mapping, *)
(* `order` the order in which `range inputs` yields its keys.              *)
(***************************************************************************)
\* a mutation of HashPairs: the type tag of each value is written to the
\* hash as well
RECURSIVE HashPairsTyped(_, _)
HashPairsTyped(inputs, keys) ==
    IF keys = <<>> THEN <<>>
    ELSE Head(keys) \o <<inputs[Head(keys)].Type>> \o SprintfV(inputs[Head(keys)].Value)
             \o HashPairsTyped(inputs, Tail(keys))

\* the bytes written to the hash for the keys, in the order given
RECURSIVE HashPairs(_, _)
HashPairs(inputs, keys) ==
    IF keys = <<>> THEN <<>>
    ELSE Head(keys) \o SprintfV(inputs[Head(keys)].Value) \o HashPairs(inputs, Tail(keys))

\* h.Sum(nil)[:8] in hex, for a hash fed `stream`.  SHA-256 is taken to be
\* collision-free: the digest is represented by the stream that produced it.
Sha256Hex8(stream) == <<"sha256", stream>>

generateID(name, inputs, order) ==
    LET keys   == SortStrings(order)
        stream == name \o HashPairs(inputs, keys)
    IN  [name |-> name, hex |-> Sha256Hex8(stream)]

(***************************************************************************)
(* Go maps.  A heap is a sequence of map contents; a reference is an index *)
(* into it, NilRef the nil map.  A map content is a function from its keys.*)
(***************************************************************************)
EmptyMap == <<>>

MapSet(m, k, v) == [x \in (DOMAIN m) \cup {k} |-> IF x = k THEN v ELSE m[x]]

MapDelete(m, k) == [x \in (DOMAIN m) \ {k} |-> m[x]]

\* what reading through reference r sees (a nil map reads as empty)
Deref(heap, r) == IF r = NilRef THEN EmptyMap ELSE heap[r]

\* make(map...) followed by filling it with content m
Alloc(heap, m) == [ref |-> Len(heap) + 1, heap |-> Append(heap, m)]

\* m[k] = v through reference r
HeapSet(heap, r, k, v) == [heap EXCEPT ![r] = MapSet(@, k, v)]

(***************************************************************************)
(* copyInputs (trace.go:190-200)                                           *)
(***************************************************************************)
\* a mutation of copyInputs: the caller's map is stored, not a copy
copyInputsAliased(heap, inputs) ==
    IF inputs = NilRef THEN Alloc(heap, EmptyMap)
    ELSE [ref |-> inputs, heap |-> Append(heap, heap[inputs])]

copyInputs(heap, inputs) ==
    IF inputs = NilRef THEN Alloc(heap, EmptyMap)
    ELSE Alloc(heap, [k \in DOMAIN heap[inputs] |-> heap[inputs][k]])

(***************************************************************************)
(* Step (trace.go:41-85)                                                   *)
(***************************************************************************)
NewStep(sh, operation, inputs, output, now) ==
    LET md == Alloc(sh, EmptyMap)
    IN  [step |-> [Operation   |-> operation,
                   Description |-> <<>>,
                   Inputs      |-> inputs,
                   Output      |-> output,
                   Timestamp   |-> now,
                   Metadata    |-> md.ref],
         strMaps |-> md.heap]

\* a mutation of Step.WithDescription: the text is stored as the operation
Step_WithDescriptionAsOperation(s, desc) == [s EXCEPT !.Operation = desc]

\* Step.WithDescription: the receiver s is a copy of the caller's struct
Step_WithDescription(s, desc) == [s EXCEPT !.Description = desc]

\* Step.WithMetadata: the receiver s is a copy of the caller's struct, whose
\* Metadata field refers to the same map as the caller's
Step_WithMetadata(sh, s, key, value) ==
    LET md == IF s.Metadata = NilRef THEN Alloc(sh, EmptyMap)
              ELSE [ref |-> s.Metadata, heap |-> sh]
    IN  [step    |-> [s EXCEPT !.Metadata = md.ref],
         strMaps |-> HeapSet(md.heap, md.ref, key, value)]

(***************************************************************************)
(* Trace (trace.go:87-154)                                                 *)
(***************************************************************************)
ErrAddStep      == "cannot add step to completed trace"
ErrSetResult    == "cannot set result on completed trace"
ErrWithMetadata == "cannot add metadata to completed trace"

\* a mutation of NewTrace: the end timestamp is set at construction
NewTraceWithEndTime(vh, sh, name, inputs, order, now) ==
    LET cp == copyInputs(vh, inputs)
        md == Alloc(sh, EmptyMap)
    IN  [t |-> [ID        |-> generateID(name, Deref(vh, inputs), order),
                Name      |-> name,
                Inputs    |-> cp.ref,
                Steps     |-> <<>>,
                Result    |-> NilPtr,
                StartTime |-> now,
                EndTime   |-> Ptr(now),
                Metadata  |-> md.ref,
                completed |-> FALSE],
         valMaps |-> cp.heap,
         strMaps |-> md.heap]

NewTrace(vh, sh, name, inputs, order, now) ==
    LET cp == copyInputs(vh, inputs)
        md == Alloc(sh, EmptyMap)
    IN  [t |-> [ID        |-> generateID(name, Deref(vh, inputs), order),
                Name      |-> name,
                Inputs    |-> cp.ref,
                Steps     |-> <<>>,
                Result    |-> NilPtr,
                StartTime |-> now,
                EndTime   |-> NilPtr,
                Metadata  |-> md.ref,
                completed |-> FALSE],
         valMaps |-> cp.heap,
         strMaps |-> md.heap]

\* a mutation of AddStep: the completion check is missing
AddStepUnchecked(tr, step) == [t |-> [tr EXCEPT !.Steps = Append(@, step)], err |-> Nil]

\* a mutation of AddStep: the step is put in front of the sequence
AddStepPrepend(tr, step) ==
    IF tr.completed
    THEN [t |-> tr, err |-> ErrAddStep]
    ELSE [t |-> [tr EXCEPT !.Steps = <<step>> \o @], err |-> Nil]

AddStep(tr, step) ==
    IF tr.completed
    THEN [t |-> tr, err |-> ErrAddStep]
    ELSE [t |-> [tr EXCEPT !.Steps = Append(@, step)], err |-> Nil]

\* a mutation of SetResult: the completion check is missing
SetResultUnchecked(tr, result, now) ==
    [t |-> [tr EXCEPT !.Result = Ptr(result), !.EndTime = Ptr(now), !.completed = TRUE], err |-> Nil]

\* a mutation of SetResult: the completion flag is toggled instead of set
SetResultToggle(tr, result, now) ==
    [t |-> [tr EXCEPT !.Result = Ptr(result), !.EndTime = Ptr(now), !.completed = ~@], err |-> Nil]

\* a mutation of SetResult: the end timestamp is not recorded
SetResultNoEndTime(tr, result, now) ==
    IF tr.completed
    THEN [t |-> tr, err |-> ErrSetResult]
    ELSE [t |-> [tr EXCEPT !.Result = Ptr(result), !.completed = TRUE], err |-> Nil]

\* a mutation of SetResult: the identifier is derived again, from the name
SetResultRehash(tr, result, now) ==
    IF tr.completed
    THEN [t |-> tr, err |-> ErrSetResult]
    ELSE [t |-> [tr EXCEPT !.ID = generateID(tr.Name, EmptyMap, <<>>),
                           !.Result = Ptr(result), !.EndTime = Ptr(now), !.completed = TRUE],
          err |-> Nil]

SetResult(tr, result, now) ==
    IF tr.completed
    THEN [t |-> tr, err |-> ErrSetResult]
    ELSE [t |-> [tr EXCEPT !.Result = Ptr(result), !.EndTime = Ptr(now), !.completed = TRUE],
          err |-> Nil]

IsCompleted(tr) == tr.completed

\* a mutation of Trace.WithMetadata: the completion check is missing
Trace_WithMetadataUnchecked(sh, tr, key, value) ==
    LET md == IF tr.Metadata = NilRef THEN Alloc(sh, EmptyMap)
              ELSE [ref |-> tr.Metadata, heap |-> sh]
    IN  [t       |-> [tr EXCEPT !.Metadata = md.ref],
         strMaps |-> HeapSet(md.heap, md.ref, key, value),
         err     |-> Nil]

\* a mutation of Trace.WithMetadata: a key that is already present is refused
Trace_WithMetadataNoOverwrite(sh, tr, key, value) ==
    IF tr.completed \/ key \in DOMAIN Deref(sh, tr.Metadata)
    THEN [t |-> tr, strMaps |-> sh, err |-> ErrWithMetadata]
    ELSE LET md == IF tr.Metadata = NilRef THEN Alloc(sh, EmptyMap)
                   ELSE [ref |-> tr.Metadata, heap |-> sh]
         IN  [t       |-> [tr EXCEPT !.Metadata = md.ref],
              strMaps |-> HeapSet(md.heap, md.ref, key, value),
              err     |-> Nil]

\* a mutation of Trace.WithMetadata: the entry is written before the
\* completion check
Trace_WithMetadataLateCheck(sh, tr, key, value) ==
    LET md == IF tr.Metadata = NilRef THEN Alloc(sh, EmptyMap)
              ELSE [ref |-> tr.Metadata, heap |-> sh]
    IN  [t       |-> [tr EXCEPT !.Metadata = md.ref],
         strMaps |-> HeapSet(md.heap, md.ref, key, value),
         err     |-> IF tr.completed THEN ErrWithMetadata ELSE Nil]

\* a mutation of Trace.WithMetadata: the map is replaced by one that holds
\* the new entry only
Trace_WithMetadataReplace(sh, tr, key, value) ==
    IF tr.completed
    THEN [t |-> tr, strMaps |-> sh, err |-> ErrWithMetadata]
    ELSE LET md == IF tr.Metadata = NilRef THEN Alloc(sh, EmptyMap)
                   ELSE [ref |-> tr.Metadata, heap |-> sh]
         IN  [t       |-> [tr EXCEPT !.Metadata = md.ref],
              strMaps |-> [md.heap EXCEPT ![md.ref] = [x \in {key} |-> value]],
              err     |-> Nil]

Trace_WithMetadata(sh, tr, key, value) ==
    IF tr.completed
    THEN [t |-> tr, strMaps |-> sh, err |-> ErrWithMetadata]
    ELSE LET md == IF tr.Metadata = NilRef THEN Alloc(sh, EmptyMap)
                   ELSE [ref |-> tr.Metadata, heap |-> sh]
         IN  [t       |-> [tr EXCEPT !.Metadata = md.ref],
              strMaps |-> HeapSet(md.heap, md.ref, key, value),
              err     |-> Nil]

(***************************************************************************)
(* Renderers (trace.go:78-85, 156-188).  A text is the sequence of its     *)
(* pieces: the characters of the strings the program was given and, as one *)
(* piece each, the literal parts of the format strings.                    *)
(***************************************************************************)
\* the identifier as the string "<name>-<hex>"
IDText(id) == id.name \o <<"-">> \o id.hex[2]

\* Step.String
StepString(s) ==
    LET result == s.Operation \o <<": ">> \o ValueString(s.Output)
    IN  IF s.Description # <<>>
        THEN result \o <<" (">> \o s.Description \o <<")">>
        ELSE result

\* the lines added by the loop over the sorted keys (trace.go:166-168)
RECURSIVE InputLines(_, _)
InputLines(inputs, keys) ==
    IF keys = <<>> THEN <<>>
    ELSE <<"  ">> \o Head(keys) \o <<": ">> \o ValueString(inputs[Head(keys)]) \o <<"\n">>
             \o InputLines(inputs, Tail(keys))

\* the lines added by the loop over t.Steps from index i on (trace.go:171-173)
RECURSIVE StepLines(_, _)
StepLines(steps, i) ==
    IF i >= Len(steps) THEN <<>>
    ELSE <<"  ">> \o Digits(i + 1) \o <<". ">> \o StepString(steps[i + 1]) \o <<"\n">>
             \o StepLines(steps, i + 1)

\* a mutation of Trace.String: the keys are not sorted
TraceStringUnsorted(vh, tr, order) ==
    LET inputs == Deref(vh, tr.Inputs)
        r1     == <<"Trace: ">> \o tr.Name \o <<" (ID: ">> \o IDText(tr.ID) \o <<")\n">>
        r2     == r1 \o <<"Inputs:\n">>
        r3     == r2 \o InputLines(inputs, order)
        r4     == IF Len(tr.Steps) > 0
                  THEN r3 \o <<"Steps:\n">> \o StepLines(tr.Steps, 0)
                  ELSE r3
    IN  IF tr.Result # NilPtr
        THEN r4 \o <<"Result: ">> \o ValueString(tr.Result[1]) \o <<"\n">>
        ELSE r4

\* a mutation of Trace.String: the "Steps:" line is written even when there
\* is no step
TraceStringAlwaysSteps(vh, tr, order) ==
    LET inputs == Deref(vh, tr.Inputs)
        keys   == SortStrings(order)
        r1     == <<"Trace: ">> \o tr.Name \o <<" (ID: ">> \o IDText(tr.ID) \o <<")\n">>
        r2     == r1 \o <<"Inputs:\n">>
        r3     == r2 \o InputLines(inputs, keys)
        r4     == r3 \o <<"Steps:\n">> \o StepLines(tr.Steps, 0)
    IN  IF tr.Result # NilPtr
        THEN r4 \o <<"Result: ">> \o ValueString(tr.Result[1]) \o <<"\n">>
        ELSE r4

\* Trace.String; `order` is the order in which `range t.Inputs` yields the keys
TraceString(vh, tr, order) ==
    LET inputs == Deref(vh, tr.Inputs)
        keys   == SortStrings(order)
        r1     == <<"Trace: ">> \o tr.Name \o <<" (ID: ">> \o IDText(tr.ID) \o <<")\n">>
        r2     == r1 \o <<"Inputs:\n">>
        r3     == r2 \o InputLines(inputs, keys)
        r4     == IF Len(tr.Steps) > 0
                  THEN r3 \o <<"Steps:\n">> \o StepLines(tr.Steps, 0)
                  ELSE r3
    IN  IF tr.Result # NilPtr
        THEN r4 \o <<"Result: ">> \o ValueString(tr.Result[1]) \o <<"\n">>
        ELSE r4

(***************************************************************************)
(* Trace.ToJSON (trace.go:181-188): what encoding/json writes for the      *)
(* struct tags of Value, Step and Trace, without the indentation.  `perm`  *)
(* is an arbitrary order of all keys: the encoder obtains the keys of a    *)
(* map in that order, and sorts them.                                      *)
(***************************************************************************)
\* the keys of m as reflect's MapKeys returns them
MapKeys(m, perm) == SelectSeq(perm, LAMBDA k : k \in DOMAIN m)

JSONString(s) == <<"\"">> \o s \o <<"\"">>

JSONTime(n) == JSONString(Digits(n))

JSONDatum(d) ==
    IF d.T = "int" THEN Digits(d.n)
    ELSE IF d.T = "[]int" THEN <<"[">> \o Elements(slices[d.n], ",") \o <<"]">>
    ELSE JSONString(d.s)

JSONValue(v) ==
    <<"{", "\"type\":">> \o JSONString(<<v.Type>>) \o <<",", "\"value\":">>
        \o JSONDatum(v.Value) \o <<"}">>

RECURSIVE JSONValMembers(_, _)
JSONValMembers(m, keys) ==
    IF keys = <<>> THEN <<>>
    ELSE JSONString(Head(keys)) \o <<":">> \o JSONValue(m[Head(keys)])
             \o (IF Len(keys) > 1 THEN <<",">> ELSE <<>>)
             \o JSONValMembers(m, Tail(keys))

RECURSIVE JSONStrMembers(_, _)
JSONStrMembers(m, keys) ==
    IF keys = <<>> THEN <<>>
    ELSE JSONString(Head(keys)) \o <<":">> \o JSONString(m[Head(keys)])
             \o (IF Len(keys) > 1 THEN <<",">> ELSE <<>>)
             \o JSONStrMembers(m, Tail(keys))

\* a mutation of JSONValMap: the members are written in the order in which
\* the keys were enumerated
JSONValMapUnsorted(vh, ref, perm) ==
    IF ref = NilRef THEN <<"null">>
    ELSE <<"{">> \o JSONValMembers(vh[ref], MapKeys(vh[ref], perm)) \o <<"}">>

\* a map[string]Value field: a nil map is written as null
JSONValMap(vh, ref, perm) ==
    IF ref = NilRef THEN <<"null">>
    ELSE <<"{">> \o JSONValMembers(vh[ref], SortStrings(MapKeys(vh[ref], perm))) \o <<"}">>

\* a mutation of JSONMetadata: the field is written when the map is empty
JSONMetadataAlways(sh, ref, perm) ==
    LET m == Deref(sh, ref)
    IN  <<",", "\"metadata\":", "{">>
            \o JSONStrMembers(m, SortStrings(MapKeys(m, perm))) \o <<"}">>

\* a map[string]string field tagged omitempty: left out when nil or empty
JSONMetadata(sh, ref, perm) ==
    LET m == Deref(sh, ref)
    IN  IF DOMAIN m = {} THEN <<>>
        ELSE <<",", "\"metadata\":", "{">>
                 \o JSONStrMembers(m, SortStrings(MapKeys(m, perm))) \o <<"}">>

JSONStep(vh, sh, s, perm) ==
    <<"{", "\"operation\":">> \o JSONString(s.Operation)
        \o (IF s.Description # <<>>
            THEN <<",", "\"description\":">> \o JSONString(s.Description)
            ELSE <<>>)
        \o <<",", "\"inputs\":">> \o JSONValMap(vh, s.Inputs, perm)
        \o <<",", "\"output\":">> \o JSONValue(s.Output)
        \o <<",", "\"timestamp\":">> \o JSONTime(s.Timestamp)
        \o JSONMetadata(sh, s.Metadata, perm)
        \o <<"}">>

RECURSIVE JSONSteps(_, _, _, _, _)
JSONSteps(vh, sh, steps, i, perm) ==
    IF i >= Len(steps) THEN <<>>
    ELSE JSONStep(vh, sh, steps[i + 1], perm)
             \o (IF i + 1 < Len(steps) THEN <<",">> ELSE <<>>)
             \o JSONSteps(vh, sh, steps, i + 1, perm)

ToJSON(vh, sh, tr, perm) ==
    [json |-> <<"{", "\"id\":">> \o JSONString(IDText(tr.ID))
                \o <<",", "\"name\":">> \o JSONString(tr.Name)
                \o <<",", "\"inputs\":">> \o JSONValMap(vh, tr.Inputs, perm)
                \o <<",", "\"steps\":", "[">> \o JSONSteps(vh, sh, tr.Steps, 0, perm) \o <<"]">>
                \o (IF tr.Result # NilPtr
                    THEN <<",", "\"result\":">> \o JSONValue(tr.Result[1])
                    ELSE <<>>)
                \o <<",", "\"start_time\":">> \o JSONTime(tr.StartTime)
                \o (IF tr.EndTime # NilPtr
                    THEN <<",", "\"end_time\":">> \o JSONTime(tr.EndTime[1])
                    ELSE <<>>)
                \o JSONMetadata(sh, tr.Metadata, perm)
                \o <<"}">>,
     err  |-> Nil]

(***************************************************************************)
(* The caller.  One computation owns the Trace and drives it sequentially  *)
(* (README, "Quick Start"): it builds steps, edits them, appends them,     *)
(* annotates and completes the trace, and keeps using its own maps.        *)
(***************************************************************************)
Names        == {<<"t">>, <<>>}
Keys         == {<<"a">>, <<"a", "b">>}
Vals         == {NewValue(IntD(1)), NewValue(IntD(2))}
Operations   == {<<"a", "d", "d">>}
Descriptions == {<<"d">>}
MetaKeys     == {<<"k">>}
MetaVals     == {<<"v">>, <<"w">>}
Times        == {0, 1}       \* readings of time.Now().UTC() in SetResult
StepTimes    == {0}          \* readings of time.Now().UTC() in NewStep
StepVars     == {"step", "other"}   \* the caller's local variables of type Step

\* the mappings the caller builds for NewTrace
InitialInputs == { [k \in Keys |-> NewValue(IntD(1))] }

\* what the caller later writes into its own inputs map
CallerKeys == {<<"a">>}
CallerVals == {NewValue(IntD(2))}

\* what the caller passes to NewStep
StepOutputs  == {NewValue(IntD(2))}
StepMetaVals == {<<"v">>}

\* the orders in which the keys of the maps of a trace may be enumerated
KeyPerms == { o1 \o o2 : o1 \in Orders(Keys), o2 \in Orders(MetaKeys) }

Call(op, args, err) == [op |-> op, args |-> args, err |-> err]

NoIDHarness ==
    /\ idName = <<>>
    /\ idInputs = <<>>
    /\ idOrder = <<>>
    /\ idOut = <<>>

\* no goroutine other than the caller's uses the trace
NoGoroutines == goroutines = <<>>

\* tr := NewTrace(name, inputs), inputs being nil or a map holding m
TraceInit(name, inputs, m, order, now) ==
    LET vh == IF inputs = NilRef THEN <<>> ELSE <<m>>
        nt == NewTrace(vh, <<>>, name, inputs, order, now)
    IN  /\ t = nt.t
        /\ valMaps = nt.valMaps
        /\ strMaps = nt.strMaps
        /\ callerInputs = inputs
        /\ held = EmptyMap
        /\ last = Call("NewTrace", <<>>, Nil)

\* the caller's a := []int{1}; inputs := map[string]Value{"a": NewValue(a)}
SliceInputs == [k \in {<<"a">>} |-> NewValue(SliceD(1))]

Init ==
    /\ \/ /\ slices = <<>>
          /\ TraceInit(<<>>, NilRef, EmptyMap, <<>>, 0)
       \/ /\ slices = <<>>
          /\ \E m \in InitialInputs : \E order \in Orders(DOMAIN m) :
                TraceInit(<<"t">>, 1, m, order, 0)
       \/ /\ slices = << <<1>> >>
          /\ TraceInit(<<"t">>, 1, SliceInputs, <<<<"a">>>>, 0)
    /\ NoIDHarness
    /\ NoGoroutines

\* a[i] = v on the slice the caller wrapped in an input Value
CallerSetElement(i, v) ==
    /\ slices # <<>>
    /\ i \in 1..Len(slices[1])
    /\ slices' = [slices EXCEPT ![1][i] = v]
    /\ last' = Call("a[i]=v", <<>>, Nil)
    /\ UNCHANGED <<t, valMaps, strMaps, callerInputs, held>>

\* inputs[k] = v on the map the caller passed to NewTrace
CallerSetInput(k, v) ==
    /\ callerInputs # NilRef
    /\ valMaps' = HeapSet(valMaps, callerInputs, k, v)
    /\ last' = Call("inputs[k]=v", <<>>, Nil)
    /\ UNCHANGED <<slices, t, strMaps, callerInputs, held>>

\* delete(inputs, k) on the map the caller passed to NewTrace
CallerDeleteInput(k) ==
    /\ callerInputs # NilRef
    /\ k \in DOMAIN valMaps[callerInputs]
    /\ valMaps' = [valMaps EXCEPT ![callerInputs] = MapDelete(@, k)]
    /\ last' = Call("delete(inputs,k)", <<>>, Nil)
    /\ UNCHANGED <<slices, t, strMaps, callerInputs, held>>

\* step := NewStep(op, inputs, out), with the map the caller passed to NewTrace
\* (README, "Metadata") or with nil
CallNewStep(op, out, now) ==
    /\ "step" \notin DOMAIN held
    /\ LET r == NewStep(strMaps, op, callerInputs, out, now)
       IN  /\ held' = MapSet(held, "step", r.step)
           /\ strMaps' = r.strMaps
    /\ last' = Call("NewStep", <<>>, Nil)
    /\ UNCHANGED <<slices, t, valMaps, callerInputs>>

\* y = x.WithDescription(desc)
CallStepWithDescription(x, y, desc) ==
    /\ x \in DOMAIN held
    /\ held' = MapSet(held, y, Step_WithDescription(held[x], desc))
    /\ last' = Call("Step.WithDescription", <<x, y, desc>>, Nil)
    /\ UNCHANGED <<slices, t, valMaps, strMaps, callerInputs>>

\* y = x.WithMetadata(key, value)
CallStepWithMetadata(x, y, key, value) ==
    /\ x \in DOMAIN held
    /\ LET r == Step_WithMetadata(strMaps, held[x], key, value)
       IN  /\ held' = MapSet(held, y, r.step)
           /\ strMaps' = r.strMaps
    /\ last' = Call("Step.WithMetadata", <<x, y, key, value>>, Nil)
    /\ UNCHANGED <<slices, t, valMaps, callerInputs>>

\* err := tr.AddStep(x)
CallAddStep(x) ==
    /\ x \in DOMAIN held
    /\ t.completed \/ Len(t.Steps) < MaxSteps
    /\ LET r == AddStep(t, held[x])
       IN  /\ t' = r.t
           /\ last' = Call("AddStep", <<x>>, r.err)
    /\ UNCHANGED <<slices, valMaps, strMaps, callerInputs, held>>

\* err := tr.SetResult(result)
CallSetResult(result, now) ==
    /\ LET r == SetResult(t, result, now)
       IN  /\ t' = r.t
           /\ last' = Call("SetResult", <<result>>, r.err)
    /\ UNCHANGED <<slices, valMaps, strMaps, callerInputs, held>>

\* err := tr.WithMetadata(key, value)
CallTraceWithMetadata(key, value) ==
    /\ LET r == Trace_WithMetadata(strMaps, t, key, value)
       IN  /\ t' = r.t
           /\ strMaps' = r.strMaps
           /\ last' = Call("Trace.WithMetadata", <<key, value>>, r.err)
    /\ UNCHANGED <<slices, valMaps, callerInputs, held>>

\* done := tr.IsCompleted()
CallIsCompleted ==
    /\ last' = Call("IsCompleted", <<IsCompleted(t)>>, Nil)
    /\ UNCHANGED <<slices, t, valMaps, strMaps, callerInputs, held>>

\* text := tr.String()
CallString(order) ==
    /\ last' = Call("String", <<TraceString(valMaps, t, order)>>, Nil)
    /\ UNCHANGED <<slices, t, valMaps, strMaps, callerInputs, held>>

\* text, err := tr.ToJSON()
CallToJSON(perm) ==
    /\ LET r == ToJSON(valMaps, strMaps, t, perm)
       IN  last' = Call("ToJSON", <<r.json>>, r.err)
    /\ UNCHANGED <<slices, t, valMaps, strMaps, callerInputs, held>>

Next ==
    \/ (\E k \in CallerKeys, v \in CallerVals : CallerSetInput(k, v)) /\ UNCHANGED <<idVars, goroutines>>
    \/ (\E i \in {1}, v \in {2} : CallerSetElement(i, v)) /\ UNCHANGED <<idVars, goroutines>>
    \/ (\E k \in CallerKeys : CallerDeleteInput(k)) /\ UNCHANGED <<idVars, goroutines>>
    \/ (\E op \in Operations, out \in StepOutputs, now \in StepTimes :
            CallNewStep(op, out, now)) /\ UNCHANGED <<idVars, goroutines>>
    \/ (\E x, y \in StepVars, d \in Descriptions :
            CallStepWithDescription(x, y, d)) /\ UNCHANGED <<idVars, goroutines>>
    \/ (\E x, y \in StepVars, k \in MetaKeys, v \in StepMetaVals :
            CallStepWithMetadata(x, y, k, v)) /\ UNCHANGED <<idVars, goroutines>>
    \/ (\E x \in StepVars : CallAddStep(x)) /\ UNCHANGED <<idVars, goroutines>>
    \/ (\E v \in Vals, now \in Times : CallSetResult(v, now)) /\ UNCHANGED <<idVars, goroutines>>
    \/ (\E k \in MetaKeys, v \in MetaVals : CallTraceWithMetadata(k, v)) /\ UNCHANGED <<idVars, goroutines>>
    \/ CallIsCompleted /\ UNCHANGED <<idVars, goroutines>>
    \/ (\E order \in Orders(DOMAIN Deref(valMaps, t.Inputs)) : CallString(order))
           /\ UNCHANGED <<idVars, goroutines>>
    \/ (\E perm \in KeyPerms : CallToJSON(perm)) /\ UNCHANGED <<idVars, goroutines>>

Spec == Init /\ [][Next]_vars

(***************************************************************************)
(* generateID as a function: one name, two inputs mappings, each visited   *)
(* by `range` in an arbitrary order (Go does not fix the iteration order   *)
(* of a map), and the identifier derived for each.                         *)
(***************************************************************************)
IDData   == {StrD(<<"b", "c">>), StrD(<<"c">>), IntD(1), StrD(<<"1">>)}
IDValues == {NewValue(d) : d \in IDData}
IDInputs == UNION { [S -> IDValues] : S \in SUBSET Keys }

InitID ==
    /\ slices = <<>>
    /\ TraceInit(<<"t">>, NilRef, EmptyMap, <<>>, 0)
    /\ idName \in Names
    /\ idInputs \in IDInputs \X IDInputs
    /\ idOrder \in Orders(DOMAIN idInputs[1]) \X Orders(DOMAIN idInputs[2])
    /\ idOut = <<>>
    /\ NoGoroutines

\* id := generateID(name, inputs) on the next mapping
DeriveID ==
    /\ Len(idOut) < 2
    /\ LET n == Len(idOut) + 1
       IN  idOut' = Append(idOut, generateID(idName, idInputs[n], idOrder[n]))
    /\ UNCHANGED <<idName, idInputs, idOrder>>

NextID == DeriveID /\ UNCHANGED <<traceVars, goroutines>>

SpecID == InitID /\ [][NextID]_vars

(***************************************************************************)
(* SetResult called from two goroutines on the same *Trace without any     *)
(* synchronisation (trace.go:127-136).  Each call is a sequence of         *)
(* statements; the accesses to t.completed, t.Result and t.EndTime race,   *)
(* so a store reaches the memory the other goroutine reads at some later   *)
(* moment, and the stores of one goroutine may reach it in any order.      *)
(***************************************************************************)
Goroutines == {1, 2}

\* a SetResult(result) call about to evaluate `if t.completed`
SetResultCall(result) ==
    [pc |-> "check", result |-> result, now |-> 0, buf |-> {}, err |-> Nil]

\* a mutation of SetResult_Store: a field that is already set is kept
SetResult_StoreOnce(tr, f, g) ==
    CASE f = "Result"    -> IF tr.Result # NilPtr THEN tr ELSE [tr EXCEPT !.Result = Ptr(g.result)]
      [] f = "EndTime"   -> IF tr.EndTime # NilPtr THEN tr ELSE [tr EXCEPT !.EndTime = Ptr(g.now)]
      [] f = "completed" -> [tr EXCEPT !.completed = TRUE]

\* the store of goroutine g to field f of the trace (trace.go:131, 133, 134)
SetResult_Store(tr, f, g) ==
    CASE f = "Result"    -> [tr EXCEPT !.Result = Ptr(g.result)]
      [] f = "EndTime"   -> [tr EXCEPT !.EndTime = Ptr(g.now)]
      [] f = "completed" -> [tr EXCEPT !.completed = TRUE]

RaceStep(i, g, op, args) ==
    /\ goroutines' = [goroutines EXCEPT ![i] = g]
    /\ last' = Call(op, args, g.err)

\* if t.completed { return fmt.Errorf(...) }
SetResult_Check(i) ==
    LET g == goroutines[i]
    IN  /\ g.pc = "check"
        /\ IF t.completed
           THEN RaceStep(i, [g EXCEPT !.pc = "done", !.err = ErrSetResult], "check", <<i>>)
           ELSE RaceStep(i, [g EXCEPT !.pc = "result"], "check", <<i>>)
        /\ UNCHANGED t

\* t.Result = &result
SetResult_Result(i) ==
    LET g == goroutines[i]
    IN  /\ g.pc = "result"
        /\ RaceStep(i, [g EXCEPT !.pc = "now", !.buf = @ \cup {"Result"}], "t.Result=", <<i>>)
        /\ UNCHANGED t

\* now := time.Now().UTC()
SetResult_Now(i, now) ==
    LET g == goroutines[i]
    IN  /\ g.pc = "now"
        /\ RaceStep(i, [g EXCEPT !.pc = "endtime", !.now = now], "now:=", <<i>>)
        /\ UNCHANGED t

\* t.EndTime = &now
SetResult_EndTime(i) ==
    LET g == goroutines[i]
    IN  /\ g.pc = "endtime"
        /\ RaceStep(i, [g EXCEPT !.pc = "flag", !.buf = @ \cup {"EndTime"}], "t.EndTime=", <<i>>)
        /\ UNCHANGED t

\* t.completed = true; return nil
SetResult_Completed(i) ==
    LET g == goroutines[i]
    IN  /\ g.pc = "flag"
        /\ RaceStep(i, [g EXCEPT !.pc = "done", !.buf = @ \cup {"completed"}],
                    "t.completed=", <<i>>)
        /\ UNCHANGED t

\* a store of goroutine i to field f reaches the memory
StoreVisible(i, f) ==
    LET g == goroutines[i]
    IN  /\ f \in g.buf
        /\ t' = SetResult_Store(t, f, g)
        /\ RaceStep(i, [g EXCEPT !.buf = @ \ {f}], "store", <<i, f>>)

InitRace ==
    /\ slices = <<>>
    /\ TraceInit(<<"t">>, NilRef, EmptyMap, <<>>, 0)
    /\ NoIDHarness
    /\ goroutines \in [Goroutines -> {SetResultCall(v) : v \in Vals}]

NextRace ==
    /\ \/ \E i \in Goroutines : SetResult_Check(i)
       \/ \E i \in Goroutines : SetResult_Result(i)
       \/ \E i \in Goroutines, now \in Times : SetResult_Now(i, now)
       \/ \E i \in Goroutines : SetResult_EndTime(i)
       \/ \E i \in Goroutines : SetResult_Completed(i)
       \/ \E i \in Goroutines, f \in {"Result", "EndTime", "completed"} : StoreVisible(i, f)
    /\ UNCHANGED <<valMaps, strMaps, slices, callerInputs, held, idVars>>

SpecRace == InitRace /\ [][NextRace]_vars

(***************************************************************************)
(* NewTrace for any name and any inputs: nil, an empty mapping or a        *)
(* mapping over the keys, followed by reads of the new trace.              *)
(***************************************************************************)
InitNew ==
    /\ slices = <<>>
    /\ \E name \in Names, now \in Times :
          \/ TraceInit(name, NilRef, EmptyMap, <<>>, now)
          \/ \E m \in IDInputs : \E order \in Orders(DOMAIN m) :
                TraceInit(name, 1, m, order, now)
    /\ NoIDHarness
    /\ NoGoroutines

NextNew ==
    /\ \/ CallIsCompleted
       \/ \E order \in Orders(DOMAIN Deref(valMaps, t.Inputs)) : CallString(order)
    /\ UNCHANGED <<idVars, goroutines>>

SpecNew == InitNew /\ [][NextNew]_vars

(***************************************************************************)
(* Trace metadata with two keys: the caller annotates a trace, adds a step *)
(* to it and completes it.                                                 *)
(***************************************************************************)
TraceMetaKeys == {<<"k">>, <<"j">>}

InitMeta ==
    /\ slices = <<>>
    /\ TraceInit(<<"t">>, NilRef, EmptyMap, <<>>, 0)
    /\ NoIDHarness
    /\ NoGoroutines

NextMeta ==
    /\ \/ \E k \in TraceMetaKeys, v \in MetaVals : CallTraceWithMetadata(k, v)
       \/ \E op \in Operations, out \in StepOutputs, now \in StepTimes :
             CallNewStep(op, out, now)
       \/ \E x \in StepVars : CallAddStep(x)
       \/ \E v \in Vals, now \in Times : CallSetResult(v, now)
    /\ UNCHANGED <<idVars, goroutines>>

SpecMeta == InitMeta /\ [][NextMeta]_vars

(***************************************************************************)
(* Observations used by the properties.                                    *)
(***************************************************************************)
Mutators == {"AddStep", "SetResult", "Trace.WithMetadata"}

\* the inputs recorded in the trace, read through its Inputs field
TraceInputs == Deref(valMaps, t.Inputs)

\* what a reader of step s sees, given the two heaps
StepContent(vh, sh, s) ==
    [Operation   |-> s.Operation,
     Description |-> s.Description,
     Inputs      |-> Deref(vh, s.Inputs),
     Output      |-> s.Output,
     Metadata    |-> Deref(sh, s.Metadata)]

\* the two mappings differ in a key or in the display text of a value
InputsDiffer(m1, m2) ==
    \/ DOMAIN m1 # DOMAIN m2
    \/ \E k \in DOMAIN m1 : ValueString(m1[k]) # ValueString(m2[k])

(***************************************************************************)
(* Lifecycle properties.                                                   *)
(***************************************************************************)
\* C1: once a SetResult call has succeeded the trace is completed, it stays
\* completed, and every AddStep, SetResult and Trace.WithMetadata call made
\* on a completed trace returns an error.
C1_MutatorsFailAfterSetResult ==
    [][ /\ (last'.op = "SetResult" /\ last'.err = Nil => t'.completed)
        /\ (t.completed => t'.completed)
        /\ (t.completed /\ last'.op \in Mutators => last'.err # Nil) ]_vars

\* a completed trace on which Trace.WithMetadata has just been refused, after
\* an AddStep had succeeded earlier
C1_Witness ==
    /\ t.completed
    /\ Len(t.Steps) > 0
    /\ last.op = "Trace.WithMetadata"
    /\ last.err = ErrWithMetadata

\* C2: a SetResult call on a trace that already has a result fails and
\* leaves the result and the end timestamp of the first call as they were.
C2_SecondSetResultKeepsFirst ==
    [][ t.Result # NilPtr /\ last'.op = "SetResult" =>
            /\ last'.err = ErrSetResult
            /\ t'.Result = t.Result
            /\ t'.EndTime = t.EndTime ]_vars

\* SetResult has just been refused for a value other than the stored result
C2_Witness ==
    /\ last.op = "SetResult"
    /\ last.err = ErrSetResult
    /\ t.Result # NilPtr
    /\ t.Result # Ptr(last.args[1])

\* C3: AddStep on a completed trace fails and leaves the step sequence, and
\* what each of its steps shows, as they were.
C3_AddStepOnCompletedKeepsSteps ==
    [][ t.completed /\ last'.op = "AddStep" =>
            /\ last'.err = ErrAddStep
            /\ t'.Steps = t.Steps
            /\ \A i \in 1..Len(t.Steps) :
                  StepContent(valMaps', strMaps', t'.Steps[i])
                      = StepContent(valMaps, strMaps, t.Steps[i]) ]_vars

\* AddStep has just been refused on a completed trace that holds a step
C3_Witness ==
    /\ t.completed
    /\ last.op = "AddStep"
    /\ last.err = ErrAddStep
    /\ Len(t.Steps) = 1

\* C4: when the caller adds, overwrites or deletes an entry of the map it
\* passed to NewTrace, the inputs recorded in the trace stay the same.
C4_InputsSnapshotIsolated ==
    [][ last'.op \in {"inputs[k]=v", "delete(inputs,k)"} =>
            Deref(valMaps', t'.Inputs) = Deref(valMaps, t.Inputs) ]_vars

\* the caller has overwritten an entry of its map after the trace was
\* completed, and its map now differs from the recorded inputs
C4_Witness ==
    /\ last.op = "inputs[k]=v"
    /\ t.completed
    /\ callerInputs # NilRef
    /\ Deref(valMaps, callerInputs) # TraceInputs
    /\ DOMAIN Deref(valMaps, callerInputs) = DOMAIN TraceInputs

\* C7: once IsCompleted() is true it is true in every later state.
C7_CompletionMonotonic == [][IsCompleted(t) => IsCompleted(t')]_vars

\* IsCompleted() has just returned true on a trace holding a result
C7_Witness ==
    /\ last.op = "IsCompleted"
    /\ last.args = <<TRUE>>
    /\ t.Result # NilPtr

\* C8: the completion flag is set exactly when the end timestamp is present
\* and exactly when the result is present.
C8_CompletedIffEndTimeIffResult ==
    /\ t.completed <=> t.EndTime # NilPtr
    /\ t.completed <=> t.Result # NilPtr

\* SetResult has just succeeded
C8_Witness ==
    /\ last.op = "SetResult"
    /\ last.err = Nil
    /\ t.completed
    /\ t.Result = Ptr(last.args[1])
    /\ t.EndTime # NilPtr

\* C9: what the trace shows for a step it holds (operation, description,
\* inputs, output, metadata) is the same after every step of the caller.
C9_AppendedStepNeverAltered ==
    [][ \A i \in 1..Len(t.Steps) :
            /\ i <= Len(t'.Steps)
            /\ StepContent(valMaps', strMaps', t'.Steps[i])
                   = StepContent(valMaps, strMaps, t.Steps[i]) ]_vars

\* C10: Step.WithMetadata(key, value) returns a Step whose metadata maps key
\* to value, and the Step it was called on shows the same metadata entries
\* after the call as before it.
C10_StepWithMetadataKeepsReceiver ==
    [][ last'.op = "Step.WithMetadata" =>
            LET x     == last'.args[1]
                y     == last'.args[2]
                key   == last'.args[3]
                value == last'.args[4]
            IN  /\ key \in DOMAIN Deref(strMaps', held'[y].Metadata)
                /\ Deref(strMaps', held'[y].Metadata)[key] = value
                /\ Deref(strMaps', held[x].Metadata) = Deref(strMaps, held[x].Metadata) ]_vars

(***************************************************************************)
(* Renderer properties.                                                    *)
(***************************************************************************)
Renderers == {"String", "ToJSON"}

\* C11: String() and ToJSON(), called on an open or on a completed trace,
\* leave the trace and everything it refers to unchanged, and a renderer
\* called again right after itself returns the same text.
C11_RenderersPure ==
    [][ /\ (last'.op \in Renderers =>
                /\ t' = t
                /\ valMaps' = valMaps
                /\ strMaps' = strMaps
                /\ slices' = slices
                /\ held' = held)
        /\ (last.op \in Renderers /\ last'.op = last.op => last'.args = last.args) ]_vars

\* ToJSON has just been called on a completed trace with two inputs, a step
\* and a metadata entry
C11_Witness ==
    /\ last.op = "ToJSON"
    /\ t.completed
    /\ Cardinality(DOMAIN TraceInputs) = 2
    /\ Len(t.Steps) > 0
    /\ DOMAIN Deref(strMaps, t.Metadata) # {}

\* the first line of Trace.String, which names the trace and its identifier
Header(tr) == <<"Trace: ">> \o tr.Name \o <<" (ID: ">> \o IDText(tr.ID) \o <<")\n">>

\* the keys of m, each smaller than the ones after it
AscendingKeys(m) ==
    CHOOSE ks \in Orders(DOMAIN m) :
        \A i, j \in 1..Len(ks) : i < j => StrLess(ks[i], ks[j])

\* the part of a text of String() that follows the "Inputs:" line and has
\* the length of the lines of m
InputsSection(text, tr, m) ==
    LET from == Len(Header(tr)) + 2
    IN  SubSeq(text, from, from + Len(InputLines(m, AscendingKeys(m))) - 1)

\* C12: the text returned by String() lists the inputs after the "Inputs:"
\* line, one line per key, in ascending order of the keys, whatever order
\* the map yields them in.
C12_InputsListedAscending ==
    last.op = "String" =>
        /\ last.args[1][Len(Header(t)) + 1] = "Inputs:\n"
        /\ InputsSection(last.args[1], t, TraceInputs)
               = InputLines(TraceInputs, AscendingKeys(TraceInputs))

\* String() has just rendered a trace with two inputs, "a" before "ab"
C12_Witness ==
    /\ last.op = "String"
    /\ DOMAIN TraceInputs = Keys
    /\ InputsSection(last.args[1], t, TraceInputs)
           = <<"  ", "a", ": ", "1", "\n", "  ", "a", "b", ": ", "1", "\n">>

\* the pieces of a text
Pieces(text) == { text[i] : i \in 1..Len(text) }

\* C13: the text returned by String() always starts with the header followed
\* by the "Inputs:" line; it has a "Steps:" line exactly when the trace holds
\* a step and a "Result:" line exactly when the result is set.  For a
\* completed trace without inputs and without steps it is the header, the
\* "Inputs:" line and the result line.
C13_SectionsOfString ==
    last.op = "String" =>
        LET text == last.args[1]
            h    == Len(Header(t))
        IN  /\ SubSeq(text, 1, h) = Header(t)
            /\ text[h + 1] = "Inputs:\n"
            /\ ("Steps:\n" \in Pieces(text)) <=> (Len(t.Steps) > 0)
            /\ ("Result: " \in Pieces(text)) <=> (t.Result # NilPtr)
            /\ (TraceInputs = EmptyMap /\ t.Steps = <<>> /\ t.completed =>
                    text = Header(t) \o <<"Inputs:\n", "Result: ">>
                               \o ValueString(t.Result[1]) \o <<"\n">>)

\* String() has just rendered a completed trace that has no inputs and no
\* steps
C13_Witness ==
    /\ last.op = "String"
    /\ TraceInputs = EmptyMap
    /\ t.Steps = <<>>
    /\ t.completed
    /\ "Result: " \in Pieces(last.args[1])
    /\ "Steps:\n" \notin Pieces(last.args[1])

(***************************************************************************)
(* Identifier of a trace.                                                  *)
(***************************************************************************)
\* C14: after NewTrace the identifier is what generateID returns for the
\* name and the inputs passed to NewTrace, and no later step of the caller
\* (AddStep, SetResult, WithMetadata, String, ToJSON or any other) changes
\* it.
C14_IDFixedAtConstruction ==
    /\ \A order \in Orders(DOMAIN Deref(valMaps, callerInputs)) :
          t.ID = generateID(t.Name, Deref(valMaps, callerInputs), order)
    /\ [][t'.ID = t.ID]_vars

\* a completed trace with a step and a metadata entry has just been
\* serialised, after the caller changed the map it had passed to NewTrace;
\* the identifier is still the one of the recorded inputs
C14_Witness ==
    /\ last.op = "ToJSON"
    /\ t.completed
    /\ Len(t.Steps) > 0
    /\ DOMAIN Deref(strMaps, t.Metadata) # {}
    /\ callerInputs # NilRef
    /\ Deref(valMaps, callerInputs) # TraceInputs
    /\ slices = <<>>
    /\ t.ID = generateID(t.Name, TraceInputs, AscendingKeys(TraceInputs))
    /\ t.ID # generateID(t.Name, Deref(valMaps, callerInputs),
                         AscendingKeys(Deref(valMaps, callerInputs)))

(***************************************************************************)
(* Sequence of steps.                                                      *)
(***************************************************************************)
\* the position of the first occurrence of a piece in a text
IndexOf(text, piece) ==
    CHOOSE i \in 1..Len(text) :
        text[i] = piece /\ \A j \in 1..(i - 1) : text[j] # piece

\* the line String() writes for the i-th step
NumberedLine(i, s) == <<"  ">> \o Digits(i) \o <<". ">> \o StepString(s) \o <<"\n">>

\* the texts of a sequence, one after the other
RECURSIVE Flatten(_)
Flatten(texts) == IF texts = <<>> THEN <<>> ELSE Head(texts) \o Flatten(Tail(texts))

\* C15: a successful AddStep appends the given step at the end of the
\* sequence, also when an equal step is already there; no other call changes
\* the sequence; and String() lists the steps after the "Steps:" line,
\* numbered from 1, in the order of the sequence.
C15_AddStepAppendsInOrder ==
    [][ /\ (last'.op = "AddStep" /\ last'.err = Nil =>
                t'.Steps = Append(t.Steps, held[last'.args[1]]))
        /\ (last'.op # "AddStep" \/ last'.err # Nil => t'.Steps = t.Steps)
        /\ (last'.op = "String" /\ Len(t'.Steps) > 0 =>
                LET text  == last'.args[1]
                    from  == IndexOf(text, "Steps:\n") + 1
                    lines == Flatten([i \in 1..Len(t'.Steps) |-> NumberedLine(i, t'.Steps[i])])
                IN  SubSeq(text, from, from + Len(lines) - 1) = lines) ]_vars

\* AddStep has just appended a step equal to the one already in the trace
C15_Witness ==
    /\ last.op = "AddStep"
    /\ last.err = Nil
    /\ Len(t.Steps) = 2
    /\ t.Steps[1] = t.Steps[2]

(***************************************************************************)
(* Errors of the mutating calls.                                           *)
(***************************************************************************)
\* C16: a call to AddStep, SetResult or Trace.WithMetadata returns an error
\* exactly when IsCompleted() was true right before the call, whatever its
\* argument.
C16_ErrorIffCompleted ==
    [][ last'.op \in Mutators => (last'.err # Nil <=> IsCompleted(t)) ]_vars

\* Trace.WithMetadata has just succeeded on an open trace that holds a step
C16_Witness ==
    /\ last.op = "Trace.WithMetadata"
    /\ last.err = Nil
    /\ ~IsCompleted(t)
    /\ Len(t.Steps) > 0
    /\ Deref(strMaps, t.Metadata) = [k \in MetaKeys |-> <<"w">>]

\* what a reader of the trace sees in its fields, given the heaps
TraceContent(vh, sh, tr) ==
    [ID        |-> tr.ID,
     Name      |-> tr.Name,
     Inputs    |-> Deref(vh, tr.Inputs),
     Steps     |-> tr.Steps,
     Result    |-> tr.Result,
     StartTime |-> tr.StartTime,
     EndTime   |-> tr.EndTime,
     Metadata  |-> Deref(sh, tr.Metadata),
     completed |-> tr.completed]

\* C17: an AddStep, SetResult or Trace.WithMetadata call that returns an
\* error leaves every field of the trace as it was, and no step of the
\* caller changes the metadata of a completed trace.
C17_FailedCallChangesNothing ==
    [][ /\ (last'.op \in Mutators /\ last'.err # Nil =>
                /\ t' = t
                /\ TraceContent(valMaps', strMaps', t') = TraceContent(valMaps, strMaps, t))
        /\ (t.completed =>
                Deref(strMaps', t'.Metadata) = Deref(strMaps, t.Metadata)) ]_vars

\* Trace.WithMetadata has just been refused on a completed trace that holds
\* a metadata entry
C17_Witness ==
    /\ last.op = "Trace.WithMetadata"
    /\ last.err = ErrWithMetadata
    /\ t.completed
    /\ Deref(strMaps, t.Metadata) = [k \in MetaKeys |-> <<"v">>]

(***************************************************************************)
(* Inputs of a step and deep copy of the inputs of a trace.                *)
(***************************************************************************)
CallerMapOps == {"inputs[k]=v", "delete(inputs,k)"}

\* C18: when the caller adds, overwrites or deletes an entry of the map it
\* passed to NewStep, the inputs of the Step variables it holds and of the
\* steps stored in the trace stay the same.
C18_StepInputsIsolated ==
    [][ last'.op \in CallerMapOps =>
            /\ \A x \in DOMAIN held :
                  Deref(valMaps', held'[x].Inputs) = Deref(valMaps, held[x].Inputs)
            /\ \A i \in 1..Len(t.Steps) :
                  Deref(valMaps', t'.Steps[i].Inputs) = Deref(valMaps, t.Steps[i].Inputs) ]_vars

CallerOps == CallerMapOps \cup {"a[i]=v"}

\* the display text of each input recorded in the trace, given the heaps
InputTexts(vh, sl, tr) ==
    [k \in DOMAIN Deref(vh, tr.Inputs) |-> SprintfVIn(sl, Deref(vh, tr.Inputs)[k].Value)]

\* C19: whatever the caller changes through what it passed to NewTrace (an
\* entry of the map, or an element of a slice wrapped in an input Value),
\* the inputs recorded in the trace keep their keys, their values and their
\* display texts.
C19_InputsDeepCopied ==
    [][ last'.op \in CallerOps =>
            /\ Deref(valMaps', t'.Inputs) = Deref(valMaps, t.Inputs)
            /\ InputTexts(valMaps', slices', t') = InputTexts(valMaps, slices, t) ]_vars

(***************************************************************************)
(* Step.WithDescription.                                                   *)
(***************************************************************************)
\* C20: y = x.WithDescription(text) gives y the description text and the
\* operation, inputs, output, timestamp and metadata of x, and x, when it is
\* another variable than y, keeps its description and its other fields.
C20_WithDescriptionKeepsReceiver ==
    [][ last'.op = "Step.WithDescription" =>
            LET x    == last'.args[1]
                y    == last'.args[2]
                text == last'.args[3]
            IN  /\ held'[y].Description = text
                /\ held'[y].Timestamp = held[x].Timestamp
                /\ StepContent(valMaps', strMaps', held'[y])
                       = [StepContent(valMaps, strMaps, held[x]) EXCEPT !.Description = text]
                /\ (y # x =>
                        /\ held'[x] = held[x]
                        /\ StepContent(valMaps', strMaps', held'[x])
                               = StepContent(valMaps, strMaps, held[x])) ]_vars

\* other = step.WithDescription("d") has just returned: other has the
\* description, step has none
C20_Witness ==
    /\ last.op = "Step.WithDescription"
    /\ last.args = <<"step", "other", <<"d">>>>
    /\ held["other"].Description = <<"d">>
    /\ held["step"].Description = <<>>
    /\ held["other"].Operation = held["step"].Operation

(***************************************************************************)
(* Concurrent SetResult calls (specification SpecRace).                    *)
(***************************************************************************)
\* C21: nothing orders the SetResult calls of two goroutines.  A call whose
\* check finds the flag unset goes on to its stores and returns nil whatever
\* the other call does meanwhile, so both calls can succeed; each store that
\* reaches the trace replaces what the field held, so the trace ends with
\* the result and the end timestamp stored last; an error is returned only
\* by a call that found the flag set.
C21_RacingSetResultsBothSucceed ==
    [][ /\ \A i \in Goroutines :
              /\ (goroutines[i].pc = "check" /\ goroutines'[i].pc # "check" /\ ~t.completed =>
                      goroutines'[i].pc = "result" /\ goroutines'[i].err = Nil)
              /\ (goroutines[i].pc # "check" => goroutines'[i].err = goroutines[i].err)
              /\ (goroutines'[i].err # Nil => t'.completed)
        /\ (last'.op = "store" =>
                LET i == last'.args[1]
                    f == last'.args[2]
                IN  /\ (f = "Result" =>
                            t' = [t EXCEPT !.Result = Ptr(goroutines[i].result)])
                    /\ (f = "EndTime" =>
                            t' = [t EXCEPT !.EndTime = Ptr(goroutines[i].now)])
                    /\ (f = "completed" => t' = [t EXCEPT !.completed = TRUE]))
        /\ (last'.op # "store" => t' = t) ]_vars

\* both calls have returned nil for different results, every store has
\* reached the trace, and the trace holds the result of one call and the end
\* timestamp of the other
C21_Witness ==
    /\ \A i \in Goroutines :
          /\ goroutines[i].pc = "done"
          /\ goroutines[i].err = Nil
          /\ goroutines[i].buf = {}
    /\ goroutines[1].result # goroutines[2].result
    /\ goroutines[1].now # goroutines[2].now
    /\ t.completed
    /\ t.Result = Ptr(goroutines[1].result)
    /\ t.EndTime = Ptr(goroutines[2].now)

(***************************************************************************)
(* Fields of the serialized document.                                      *)
(***************************************************************************)
\* the positions of a piece in a text, in ascending order
Positions(text, piece) ==
    SelectSeq([i \in 1..Len(text) |-> i], LAMBDA i : text[i] = piece)

\* the part of the document written for the j-th step: from its "operation"
\* field up to the one of the next step or, for the last step, up to the
\* "start_time" field of the trace
StepPart(text, j) ==
    LET ops  == Positions(text, "\"operation\":")
        stop == IF j < Len(ops) THEN ops[j + 1] ELSE IndexOf(text, "\"start_time\":")
    IN  SubSeq(text, ops[j], stop - 1)

\* the part of the document from the "start_time" field of the trace on
TracePart(text) == SubSeq(text, IndexOf(text, "\"start_time\":"), Len(text))

OptionalFields == {"\"result\":", "\"end_time\":", "\"metadata\":", "\"description\":"}

\* C23: the document returned by ToJSON has "result" and "end_time" exactly
\* when the trace is completed, the "metadata" of the trace and of a step
\* exactly when that mapping has an entry, the "description" of a step
\* exactly when it is not empty, and always "id", "name", "inputs",
\* "start_time" and "steps", an array with one element per step; none of the
\* four optional fields is ever written as null.
C23_FieldPresence ==
    last.op = "ToJSON" =>
        LET text  == last.args[1]
            steps == IndexOf(text, "\"steps\":")
        IN  /\ ("\"result\":" \in Pieces(text)) <=> t.completed
            /\ ("\"end_time\":" \in Pieces(text)) <=> t.completed
            /\ ("\"metadata\":" \in Pieces(TracePart(text)))
                   <=> (DOMAIN Deref(strMaps, t.Metadata) # {})
            /\ {"\"id\":", "\"name\":", "\"inputs\":", "\"steps\":", "\"start_time\":"}
                   \subseteq Pieces(text)
            /\ text[steps + 1] = "["
            /\ (text[steps + 2] = "]") <=> (t.Steps = <<>>)
            /\ Len(Positions(text, "\"operation\":")) = Len(t.Steps)
            /\ \A j \in 1..Len(t.Steps) :
                  /\ ("\"description\":" \in Pieces(StepPart(text, j)))
                         <=> (t.Steps[j].Description # <<>>)
                  /\ ("\"metadata\":" \in Pieces(StepPart(text, j)))
                         <=> (DOMAIN Deref(strMaps, t.Steps[j].Metadata) # {})
            /\ \A f \in OptionalFields :
                  \A i \in 1..(Len(text) - 1) : text[i] = f => text[i + 1] # "null"

\* ToJSON has just serialized a completed trace without metadata that holds
\* two steps, one with a description and one without
C23_Witness ==
    /\ last.op = "ToJSON"
    /\ t.completed
    /\ DOMAIN Deref(strMaps, t.Metadata) = {}
    /\ Len(t.Steps) = 2
    /\ t.Steps[1].Description # <<>>
    /\ t.Steps[2].Description = <<>>
    /\ "\"description\":" \in Pieces(StepPart(last.args[1], 1))
    /\ "\"description\":" \notin Pieces(StepPart(last.args[1], 2))

(***************************************************************************)
(* Construction (specification SpecNew).                                   *)
(***************************************************************************)
\* C24: right after NewTrace(name, inputs), for every name and every inputs,
\* the trace is open: IsCompleted() is false, there is no result and no end
\* timestamp, no step and no metadata entry, the recorded inputs are the
\* pairs supplied (none for nil), and the identifier is the one generateID
\* derives for the name and the inputs.
C24_NewTraceIsOpen ==
    /\ last.op = "NewTrace" =>
          /\ ~IsCompleted(t)
          /\ t.Result = NilPtr
          /\ t.EndTime = NilPtr
          /\ t.Steps = <<>>
          /\ Deref(strMaps, t.Metadata) = EmptyMap
          /\ TraceInputs = Deref(valMaps, callerInputs)
          /\ t.ID = generateID(t.Name, Deref(valMaps, callerInputs),
                               AscendingKeys(Deref(valMaps, callerInputs)))
          /\ IDText(t.ID) # <<>>
    /\ last.op = "IsCompleted" => last.args = <<FALSE>>

\* NewTrace has just returned for the empty name and an empty mapping that
\* is not nil
C24_Witness ==
    /\ last.op = "NewTrace"
    /\ t.Name = <<>>
    /\ callerInputs # NilRef
    /\ TraceInputs = EmptyMap
    /\ ~IsCompleted(t)

(***************************************************************************)
(* Trace.WithMetadata (specification SpecMeta).                            *)
(***************************************************************************)
\* C25: a Trace.WithMetadata(key, value) call that returns nil leaves the
\* metadata of the trace mapping key to value, with every other entry as it
\* was and no further entry, and leaves the steps, the inputs, the result,
\* the identifier and the completion flag as they were.
C25_WithMetadataSetsOneKey ==
    [][ last'.op = "Trace.WithMetadata" /\ last'.err = Nil =>
            LET key    == last'.args[1]
                value  == last'.args[2]
                before == Deref(strMaps, t.Metadata)
                after  == Deref(strMaps', t'.Metadata)
            IN  /\ DOMAIN after = DOMAIN before \cup {key}
                /\ after[key] = value
                /\ \A k \in DOMAIN before \ {key} : after[k] = before[k]
                /\ [TraceContent(valMaps', strMaps', t') EXCEPT !.Metadata = before]
                       = TraceContent(valMaps, strMaps, t)
                /\ \A i \in 1..Len(t.Steps) :
                      StepContent(valMaps', strMaps', t'.Steps[i])
                          = StepContent(valMaps, strMaps, t.Steps[i]) ]_vars

\* Trace.WithMetadata("k", "w") has just succeeded on a trace that holds a
\* step and an entry for the other key
C25_Witness ==
    /\ last.op = "Trace.WithMetadata"
    /\ last.err = Nil
    /\ last.args = <<<<"k">>, <<"w">>>>
    /\ Deref(strMaps, t.Metadata) = (<<"k">> :> <<"w">>) @@ (<<"j">> :> <<"v">>)
    /\ Len(t.Steps) > 0

(***************************************************************************)
(* Identifier properties (specification SpecID).                           *)
(***************************************************************************)
\* C5: two mappings holding the same key/value pairs get the same
\* identifier under the same name, whatever order their keys are visited in.
C5_IDOrderInvariant ==
    Len(idOut) = 2 /\ idInputs[1] = idInputs[2] => idOut[1] = idOut[2]

\* two identifiers derived for the same two-key mapping visited in two
\* different orders
C5_Witness ==
    /\ Len(idOut) = 2
    /\ idInputs[1] = idInputs[2]
    /\ idOrder[1] # idOrder[2]

\* C6: under the same name, two mappings that differ in a key or in the
\* display text of a value get different identifiers.
C6_DistinctInputsDistinctID ==
    Len(idOut) = 2 /\ InputsDiffer(idInputs[1], idInputs[2]) => idOut[1] # idOut[2]

\* the two mappings have the same keys and, key by key, values with the same
\* display text
SameTexts(m1, m2) ==
    /\ DOMAIN m1 = DOMAIN m2
    /\ \A k \in DOMAIN m1 : ValueString(m1[k]) = ValueString(m2[k])

\* C22: under the same name, two mappings with the same keys whose values
\* have the same display texts get the same identifier, also when the
\* values differ in type.
C22_IDIgnoresTypeTag ==
    Len(idOut) = 2 /\ SameTexts(idInputs[1], idInputs[2]) => idOut[1] = idOut[2]

\* the identifiers of {"a": 1} and {"a": "1"} have been derived and are equal
C22_Witness ==
    /\ Len(idOut) = 2
    /\ idInputs[1] = [k \in {<<"a">>} |-> NewValue(IntD(1))]
    /\ idInputs[2] = [k \in {<<"a">>} |-> NewValue(StrD(<<"1">>))]
    /\ idInputs[1][<<"a">>].Type # idInputs[2][<<"a">>].Type
    /\ idOut[1] = idOut[2]

====
